---- MODULE Spec2Model ----
(***************************************************************************)
(* Model of the VSAC code service: src/src/CodeService.js, the FHIR        *)
(* downloader (src/unnamed/part_000, lines 36-154: fhir.js) and the SVS     *)
(* downloader (src/src/svs.js).                                             *)
(*                                                                         *)
(* Strings are sequences of characters.  The three fixed prefixes that     *)
(* extractOidAndVersion looks for are single characters of the alphabet    *)
(* (no one of them is a prefix of another, so comparing strings character  *)
(* by character gives the same order as comparing the spelled-out text).   *)
(***************************************************************************)
EXTENDS Integers, Sequences, FiniteSets, TLC

VARIABLES
  valueSets,  \* this.valueSets of the one CodeService
  calls,      \* the calls of ensureValueSetsWithAPIKey, one per caller
  query,      \* the last lookup made and what it returned
  service     \* this.api and this.vsacAccess of the one CodeService

vars == <<valueSets, calls, query, service>>

----------------------------------------------------------------------------
(* Bounds of the model *)

\* references in one valueSetList
MaxList == 2
\* page requests of one download
MaxRequests == 3

----------------------------------------------------------------------------
(* JavaScript values *)

Undefined == <<"UNDEFINED">>
Null == <<"NULL">>

\* x == null
IsNull(x) == x \in {Undefined, Null}

HTTPS == "https://cts.nlm.nih.gov/fhir/ValueSet/"
HTTP == "http://cts.nlm.nih.gov/fhir/ValueSet/"
URN == "urn:oid:"
PIPE == "|"
UNDEFINEDTEXT == "undefined"
NULLTEXT == "null"
\* the line feed, a line terminator: "." of a regular expression does not
\* match it
LF == "\n"

\* the alphabet, in the order of the text each character stands for
Alphabet == <<LF, "0", "1", "2", HTTP, HTTPS, NULLTEXT, UNDEFINEDTEXT, URN, PIPE>>

CharCode(ch) == CHOOSE i \in 1..Len(Alphabet) : Alphabet[i] = ch

\* a > b on two strings: the first differing character decides, a proper
\* prefix is smaller
RECURSIVE StrGreater(_, _)
StrGreater(a, b) ==
  IF a = <<>> THEN FALSE
  ELSE IF b = <<>> THEN TRUE
  ELSE IF Head(a) = Head(b) THEN StrGreater(Tail(a), Tail(b))
  ELSE CharCode(Head(a)) > CharCode(Head(b))

\* a > b as JavaScript evaluates it on strings and undefined: a comparison
\* with undefined is false
JsGreater(a, b) ==
  IF a = Undefined \/ b = Undefined THEN FALSE ELSE StrGreater(a, b)

\* the property key a value is converted to in obj[value]
ToKey(x) ==
  IF x = Undefined THEN <<UNDEFINEDTEXT>>
  ELSE IF x = Null THEN <<NULLTEXT>>
  ELSE x

\* index of the first occurrence of ch in s, 0 when there is none
IndexOf(s, ch) ==
  IF \E i \in 1..Len(s) : s[i] = ch
  THEN CHOOSE i \in 1..Len(s) : s[i] = ch /\ \A j \in 1..(i - 1) : s[j] # ch
  ELSE 0

----------------------------------------------------------------------------
(* cql-execution data shapes *)

Code(code, system, version) == [code |-> code, system |-> system, version |-> version]

ValueSet(oid, version, codes) == [oid |-> oid, version |-> version, codes |-> codes]

\* the result "undefined" of a lookup that finds nothing
NoValueSet == ValueSet(<<"NONE">>, <<"NONE">>, <<>>)

----------------------------------------------------------------------------
(* The value set database: this.valueSets, an object of objects.          *)
(* db[oid] is the list of the entries of the inner object, in the order   *)
(* for...in visits them; an entry is a version key with its ValueSet.     *)

EmptyDB == [k \in {} |-> <<>>]

\* db[oid] != null
HasOid(db, oid) == ToKey(oid) \in DOMAIN db

\* db[oid][version] != null
HasVersion(db, oid, version) ==
  /\ HasOid(db, oid)
  /\ \E i \in 1..Len(db[ToKey(oid)]) : db[ToKey(oid)][i].key = ToKey(version)

\* db[id] = {}; db[id][version] = vs
PutValueSet(db, id, version, vs) ==
  [k \in DOMAIN db \cup {ToKey(id)} |->
     IF k = ToKey(id) THEN <<[key |-> ToKey(version), vs |-> vs]>> ELSE db[k]]

----------------------------------------------------------------------------
(* CodeService.js *)

VSAC_SVS_URL_TEMPLATE == "https://vsac.nlm.nih.gov/vsac/svs/RetrieveValueSet"
VSAC_FHIR_URL_TEMPLATE == "https://cts.nlm.nih.gov/fhir/ValueSet/{{oid}}/$expand"

\* the constructor: the downloader and the access url of the new service
\* (its valueSets start empty), with the flag it was constructed with
CodeService(useDefaultUrl, useFHIR, vsacSvsUrl, vsacFhirUrl) ==
  [useFHIR |-> useFHIR,
   api |-> "FHIR",
   vsacAccess |->
     IF useDefaultUrl
     THEN (IF useFHIR THEN VSAC_FHIR_URL_TEMPLATE ELSE VSAC_SVS_URL_TEMPLATE)
     ELSE (IF useFHIR THEN vsacFhirUrl ELSE vsacSvsUrl)]

\* id.match(/^https?:\/\/cts\.nlm\.nih\.gov\/fhir\/ValueSet\/([^|]+)(\|(.+))?$/)
UrlMatches(id) ==
  /\ id # <<>>
  /\ Head(id) \in {HTTP, HTTPS}
  /\ LET rest == Tail(id)
         p == IndexOf(rest, PIPE)
     IN /\ rest # <<>>
        /\ \/ p = 0
           \/ /\ p > 1
              /\ p < Len(rest)
              /\ \A j \in (p + 1)..Len(rest) : rest[j] # LF

\* id.match(/^urn:oid:(.+)$/)
UrnMatches(id) ==
  /\ id # <<>>
  /\ Head(id) = URN
  /\ Len(id) > 1
  /\ \A j \in 2..Len(id) : id[j] # LF

\* extractOidAndVersion taking the version after the last "|"
extractOidAndVersion_LastPipe(id) ==
  IF IsNull(id) THEN <<Undefined, Undefined>>
  ELSE IF UrlMatches(id)
    THEN LET rest == Tail(id)
             p == IndexOf(rest, PIPE)
             q == CHOOSE j \in 0..Len(rest) :
                    /\ j > 0 => rest[j] = PIPE
                    /\ \A k \in (j + 1)..Len(rest) : rest[k] # PIPE
         IN IF p = 0 THEN <<rest, Undefined>>
            ELSE <<SubSeq(rest, 1, p - 1), SubSeq(rest, q + 1, Len(rest))>>
  ELSE IF UrnMatches(id) THEN <<Tail(id), Undefined>>
  ELSE <<id, Undefined>>

\* the pair [oid, version] as the callers destructure it: a missing element
\* is undefined
extractOidAndVersion(id) ==
  IF IsNull(id) THEN <<Undefined, Undefined>>
  ELSE IF UrlMatches(id)
    THEN LET rest == Tail(id)
             p == IndexOf(rest, PIPE)
         IN IF p = 0 THEN <<rest, Undefined>>
            ELSE <<SubSeq(rest, 1, p - 1), SubSeq(rest, p + 1, Len(rest))>>
  ELSE IF UrnMatches(id) THEN <<Tail(id), Undefined>>
  ELSE <<id, Undefined>>

\* EffectiveVersion with the version in the id taking precedence over the
\* version argument
EffectiveVersion_EmbeddedFirst(id, version) ==
  LET embeddedVersion == extractOidAndVersion(id)[2]
  IN IF ~IsNull(embeddedVersion) THEN embeddedVersion ELSE version

\* version == null && embeddedVersion != null ? embeddedVersion : version
EffectiveVersion(id, version) ==
  LET embeddedVersion == extractOidAndVersion(id)[2]
  IN IF IsNull(version) /\ ~IsNull(embeddedVersion) THEN embeddedVersion ELSE version

RECURSIVE MapVs(_)
MapVs(entries) ==
  IF entries = <<>> THEN <<>> ELSE <<Head(entries).vs>> \o MapVs(Tail(entries))

findValueSets(db, id, version) ==
  LET oid == extractOidAndVersion(id)[1]
      v == EffectiveVersion(id, version)
  IN IF HasOid(db, oid)
     THEN MapVs(SelectSeq(db[ToKey(oid)], LAMBDA e : IsNull(v) \/ e.key = v))
     ELSE <<>>

\* MoreRecent comparing the versions as numbers: the longer one is greater
MoreRecent_Numeric(a, b) ==
  IF Len(a.version) # Len(b.version)
  THEN (IF Len(a.version) > Len(b.version) THEN a ELSE b)
  ELSE (IF JsGreater(a.version, b.version) THEN a ELSE b)

\* the reducer of findValueSet
MoreRecent(a, b) == IF JsGreater(a.version, b.version) THEN a ELSE b

\* results.reduce(fn) without an initial value, from the accumulator acc
RECURSIVE Reduce(_, _)
Reduce(acc, rest) ==
  IF rest = <<>> THEN acc ELSE Reduce(MoreRecent(acc, Head(rest)), Tail(rest))

findValueSet(db, id, version) ==
  LET results == findValueSets(db, id, version)
  IN IF Len(results) = 0 THEN NoValueSet
     ELSE IF Len(results) = 1 THEN results[1]
     ELSE Reduce(results[1], Tail(results))

\* a value in a condition: undefined, null and false are not true
Truthy(x) == x \notin {Undefined, Null, <<"false">>}

\* the callback of results.find, lines 198-200: its body is the expression
\* statement "result === code;" and it returns nothing
FindCallback(result, code) == Undefined

\* results.find(callback) finds an element
Finds(results, code) ==
  \E i \in 1..Len(results) : Truthy(FindCallback(results[i], code))

\* the forEach of lines 197-204, from the results so far
RECURSIVE PushUnfound(_, _)
PushUnfound(results, codes) ==
  IF codes = <<>> THEN results
  ELSE PushUnfound(IF ~Finds(results, Head(codes)) THEN Append(results, Head(codes))
                   ELSE results,
                   Tail(codes))

expandValueSet(db, oid, version) ==
  LET valueSet == findValueSet(db, oid, version)
  IN IF valueSet = NoValueSet THEN <<>> ELSE PushUnfound(<<>>, valueSet.codes)
\* A property of a library that holds a collection: absent (undefined or
\* null), or present with the values Object.values gives, in order
Absent == [present |-> FALSE, values |-> <<>>]
Present(values) == [present |-> TRUE, values |-> values]

\* a CQL library: its valueSets, its valuesets and its includes
Library(valueSets_, valuesets_, includes) ==
  [valueSets |-> valueSets_, valuesets |-> valuesets_, includes |-> includes]

\* valueSets.add(vs) for each vs of values: a Set keeps each object once, in
\* the order of insertion
RECURSIVE AddAll(_, _)
AddAll(set, values) ==
  IF values = <<>> THEN set
  ELSE AddAll(IF \E i \in 1..Len(set) : set[i] = Head(values) THEN set
              ELSE Append(set, Head(values)),
              Tail(values))

RECURSIVE extractSetOfValueSetsFromLibrary(_, _, _)
RECURSIVE ExtractFromEach(_, _, _)

\* lines 269-271: the forEach over the included libraries
ExtractFromEach(included, extractFromIncluded, valueSets_) ==
  IF included = <<>> THEN valueSets_
  ELSE ExtractFromEach(Tail(included), extractFromIncluded,
         extractSetOfValueSetsFromLibrary(Head(included), extractFromIncluded, valueSets_))

extractSetOfValueSetsFromLibrary(library, extractFromIncluded, valueSets_) ==
  IF ~library.valueSets.present /\ ~library.valuesets.present THEN valueSets_
  ELSE LET own == AddAll(AddAll(valueSets_, library.valueSets.values),
                         library.valuesets.values)
       IN IF extractFromIncluded /\ library.includes.present
          THEN ExtractFromEach(library.includes.values, extractFromIncluded, own)
          ELSE own

----------------------------------------------------------------------------
(* The FHIR downloader (fhir.js) *)

\* A response body: the ValueSet resource of one page.  kind tells which
\* parts of the expansion the body carries:
\*   "noexp"       no expansion
\*   "full"        expansion with total, offset and contains
\*   "nocontains"  expansion without contains
\*   "nototal"     expansion with contains but without total
Page(id, version, kind, total, offset, contains) ==
  [id |-> id, version |-> version, kind |-> kind,
   total |-> total, offset |-> offset, contains |-> contains]

\* page && page.expansion
HasExpansion(page) == page.kind # "noexp"

\* page.expansion.contains && page.expansion.contains.length
PLength(page) == Len(page.contains)

\* pTotal != null && pOffset != null && pLength != null && pTotal > pOffset + pLength
MorePages(page) ==
  /\ page.kind = "full"
  /\ page.total > page.offset + PLength(page)

\* NextOffset counting pages instead of codes
NextOffset_PerPage(offset, page) == offset + 1

\* offset + pLength: the offset of the next request
NextOffset(offset, page) == offset + PLength(page)

\* codes.push(...page.expansion.contains.map(c => new Code(c.code, c.system, c.version)))
\* over all the pages
RECURSIVE PagesCodes(_)
PagesCodes(pages) ==
  IF pages = <<>> THEN <<>>
  ELSE LET page == Head(pages)
           own == IF page.kind \in {"full", "nototal"}
                  THEN [i \in 1..Len(page.contains) |->
                          Code(page.contains[i].code, page.contains[i].system,
                               page.contains[i].version)]
                  ELSE <<>>
       IN own \o PagesCodes(Tail(pages))

\* CommitPages that records the value set under the key of no version
CommitPages_NoVersionKey(db, pages) ==
  LET id == pages[1].id
      version == pages[1].version
  IN PutValueSet(db, id, Undefined, ValueSet(id, version, PagesCodes(pages)))

\* lines 66-75 of downloadValueSet: the database after the value set built
\* from the pages is recorded
CommitPages(db, pages) ==
  LET id == pages[1].id
      version == pages[1].version
  IN PutValueSet(db, id, version, ValueSet(id, version, PagesCodes(pages)))

----------------------------------------------------------------------------
(* State *)

\* One download of a call: the requested oid and version, the offsets of
\* the requests issued so far (the last one is in flight while pending), the
\* pages received so far, and once settled the error it was rejected with
\* (err) and the key it recorded (got)
Download(oid, version) ==
  [oid |-> oid, version |-> version, status |-> "pending",
   offs |-> <<0>>, pages |-> <<>>, nreq |-> 1, err |-> "none", got |-> <<>>]

IdleCall ==
  [status |-> "idle", list |-> <<>>, apiKey |-> Undefined, dl |-> <<>>,
   thrown |-> "nothing", errors |-> <<>>, again |-> "no"]

Slots == DOMAIN calls

Settled(d) == d.status \in {"done", "failed"}

\* new Error(`Error downloading valueset: ${oid}${version != null ? ` version ${version}` : ''}`)
DownloadError(oid, version) ==
  [oid |-> oid, version |-> IF IsNull(version) THEN <<>> ELSE version]

NoQuery == [id |-> Undefined, version |-> Undefined, results |-> <<>>, result |-> NoValueSet]

\* new vsac.CodeService(true, true)
DefaultService ==
  CodeService(TRUE, TRUE, VSAC_SVS_URL_TEMPLATE, VSAC_FHIR_URL_TEMPLATE)

Init ==
  /\ valueSets = EmptyDB
  /\ calls = [s \in {1} |-> IdleCall]
  /\ query = NoQuery
  /\ service = DefaultService

----------------------------------------------------------------------------
(* ensureValueSetsWithAPIKey, up to the first await *)

\* NotFound of a filter that keeps every reference
NotFound_Always(db, vs) == TRUE

\* the filter of lines 52-55
NotFound(db, vs) == findValueSet(db, vs.id, vs.version) = NoValueSet

FilteredVSList(db, valueSetList) ==
  SelectSeq(valueSetList, LAMBDA vs : NotFound(db, vs))

\* the test of line 70
NeedsDownload(db, oid, version) ==
  ~HasOid(db, oid) \/ ~HasVersion(db, oid, version)

\* lines 63-73
RECURSIVE OidsAndVersions(_, _)
OidsAndVersions(db, filteredVSList) ==
  IF filteredVSList = <<>> THEN <<>>
  ELSE LET vs == Head(filteredVSList)
           oid == extractOidAndVersion(vs.id)[1]
           version == EffectiveVersion(vs.id, vs.version)
           rest == OidsAndVersions(db, Tail(filteredVSList))
       IN IF NeedsDownload(db, oid, version)
          THEN <<[oid |-> oid, version |-> version]>> \o rest
          ELSE rest

\* NoApiKey without the test for null
NoApiKey_UndefinedOnly(umlsAPIKey) == umlsAPIKey = Undefined

\* typeof umlsAPIKey === 'undefined' || umlsAPIKey == null
NoApiKey(umlsAPIKey) == IsNull(umlsAPIKey)

\* whether this call repeats the list of the call that was made before it
\* in the same slot: "no", "resolved" when that call resolved, "defined"
\* when moreover every reference has a local definition now
Again(old, db, valueSetList) ==
  IF old.status = "resolved" /\ old.list = valueSetList /\ valueSetList # <<>>
  THEN IF \A i \in 1..Len(valueSetList) :
            findValueSet(db, valueSetList[i].id, valueSetList[i].version) # NoValueSet
       THEN "defined" ELSE "resolved"
  ELSE "no"

ensureValueSetsWithAPIKey(s, valueSetList, umlsAPIKey) ==
  /\ calls[s].status \in {"idle", "resolved", "rejected"}
  /\ LET filteredVSList == FilteredVSList(valueSets, valueSetList)
         oidsAndVersions == OidsAndVersions(valueSets, filteredVSList)
         call == [IdleCall EXCEPT !.list = valueSetList, !.apiKey = umlsAPIKey,
                                  !.again = Again(calls[s], valueSets, valueSetList)]
     IN calls' = [calls EXCEPT ![s] =
          IF filteredVSList = <<>> THEN [call EXCEPT !.status = "resolved"]
          ELSE IF NoApiKey(umlsAPIKey)
            THEN [call EXCEPT !.status = "rejected", !.thrown = "nokey"]
          ELSE IF oidsAndVersions = <<>> THEN [call EXCEPT !.status = "resolved"]
          ELSE [call EXCEPT !.status = "waiting",
                            !.dl = [i \in 1..Len(oidsAndVersions) |->
                                      Download(oidsAndVersions[i].oid,
                                               oidsAndVersions[i].version)]]]
  /\ UNCHANGED <<valueSets, query, service>>


----------------------------------------------------------------------------
(* One download: downloadValueSet -> getValueSetPages -> getValueSet ->    *)
(* fetchValueSet.  Each action is the continuation that runs when the      *)
(* request in flight is answered.                                          *)

Pending(s, i) ==
  /\ s \in Slots
  /\ calls[s].status = "waiting"
  /\ i \in 1..Len(calls[s].dl)
  /\ calls[s].dl[i].status = "pending"

\* the settled download keeps its outcome only
Settle(d, status, err, got) ==
  [d EXCEPT !.status = status, !.offs = <<>>, !.pages = <<>>, !.err = err, !.got = got]

\* FetchFails of a downloader that records the pages it has when a request
\* fails
FetchFails_KeepsPages(s, i) ==
  /\ s \in Slots
  /\ calls[s].status = "waiting"
  /\ i \in 1..Len(calls[s].dl)
  /\ calls[s].dl[i].status = "pending"
  /\ valueSets' = IF calls[s].dl[i].pages = <<>> THEN valueSets
                  ELSE PutValueSet(valueSets, calls[s].dl[i].pages[1].id,
                                   calls[s].dl[i].pages[1].version,
                                   ValueSet(calls[s].dl[i].pages[1].id,
                                            calls[s].dl[i].pages[1].version, <<>>))
  /\ calls' = [calls EXCEPT ![s].dl[i] =
       [@ EXCEPT !.status = "failed", !.offs = <<>>, !.pages = <<>>, !.err = "status"]]
  /\ UNCHANGED <<query, service>>

\* fetchValueSet: !response.ok, throw new Error(response.status); the
\* rejection goes up through getValueSetPages and downloadValueSet to the
\* catch of line 83
FetchFails(s, i) ==
  /\ Pending(s, i)
  /\ calls' = [calls EXCEPT ![s].dl[i] = Settle(@, "failed", "status", <<>>)]
  /\ UNCHANGED <<valueSets, query, service>>

\* getValueSetPages on a page without expansion returns undefined.  On the
\* first page downloadValueSet returns at line 63; on a later page the
\* spread [page, ...remainingPages] of line 98 throws a TypeError
PageWithoutExpansion(s, i, page) ==
  /\ Pending(s, i)
  /\ ~HasExpansion(page)
  /\ calls' = [calls EXCEPT ![s].dl[i] =
       IF @.pages = <<>> THEN Settle(@, "done", "none", <<>>)
       ELSE Settle(@, "failed", "TypeError", <<>>)]
  /\ UNCHANGED <<valueSets, query, service>>

\* getValueSetPages, line 97: the next page is requested
PageWithMore(s, i, page) ==
  /\ Pending(s, i)
  /\ HasExpansion(page)
  /\ MorePages(page)
  /\ calls[s].dl[i].nreq < MaxRequests
  /\ calls' = [calls EXCEPT ![s].dl[i] =
       [@ EXCEPT !.pages = Append(@, page),
                 !.offs = Append(@, NextOffset(@[Len(@)], page)),
                 !.nreq = @ + 1]]
  /\ UNCHANGED <<valueSets, query, service>>

\* getValueSetPages, line 100: the last page; the pages go back up the
\* chain of awaits
LastPage(s, i, page) ==
  /\ Pending(s, i)
  /\ HasExpansion(page)
  /\ ~MorePages(page)
  /\ calls' = [calls EXCEPT ![s].dl[i] =
       [@ EXCEPT !.pages = Append(@, page), !.status = "collected"]]
  /\ UNCHANGED <<valueSets, query, service>>

\* downloadValueSet, lines 62-75, once getValueSetPages has returned the pages
downloadValueSet(s, i) ==
  /\ s \in Slots
  /\ i \in 1..Len(calls[s].dl)
  /\ calls[s].dl[i].status = "collected"
  /\ LET pages == calls[s].dl[i].pages
     IN /\ valueSets' = CommitPages(valueSets, pages)
        /\ calls' = [calls EXCEPT ![s].dl[i] =
             Settle(@, "done", "none", <<pages[1].id, pages[1].version>>)]
  /\ UNCHANGED <<query, service>>

\* results.filter(r => r instanceof Error)
RECURSIVE Errors(_)
Errors(dl) ==
  IF dl = <<>> THEN <<>>
  ELSE (IF Head(dl).status = "failed"
        THEN <<DownloadError(Head(dl).oid, Head(dl).version)>> ELSE <<>>)
       \o Errors(Tail(dl))

\* PromiseAll of downloads without the catch of line 83: the first rejection
\* rejects Promise.all
PromiseAll_FirstRejection(s) ==
  /\ s \in Slots
  /\ calls[s].status = "waiting"
  /\ \/ \A i \in 1..Len(calls[s].dl) : Settled(calls[s].dl[i])
     \/ \E i \in 1..Len(calls[s].dl) : calls[s].dl[i].status = "failed"
  /\ LET errors == Errors(calls[s].dl)
     IN calls' = [calls EXCEPT ![s] =
          IF Len(errors) > 0
          THEN [@ EXCEPT !.status = "rejected", !.thrown = "errors", !.errors = errors]
          ELSE [@ EXCEPT !.status = "resolved"]]
  /\ UNCHANGED <<valueSets, query, service>>

\* lines 93-105: Promise.all has every result
PromiseAll(s) ==
  /\ s \in Slots
  /\ calls[s].status = "waiting"
  /\ \A i \in 1..Len(calls[s].dl) : Settled(calls[s].dl[i])
  /\ LET errors == Errors(calls[s].dl)
     IN calls' = [calls EXCEPT ![s] =
          IF Len(errors) > 0
          THEN [@ EXCEPT !.status = "rejected", !.thrown = "errors", !.errors = errors]
          ELSE [@ EXCEPT !.status = "resolved"]]
  /\ UNCHANGED <<valueSets, query, service>>

----------------------------------------------------------------------------
(* The SVS downloader (svs.js) *)

\* vsac-code-systems: the table from the oid of a code system to its uri
vsacCS == [system \in {<<"1">>} |-> [uri |-> <<"http://snomed.info/sct">>]]

\* the result null of getVSACCodeSystem
NoCodeSystem == [uri |-> Undefined]

getVSACCodeSystem(codeSystems, system) ==
  IF system \in DOMAIN codeSystems /\ codeSystems[system].uri # Undefined
  THEN codeSystems[system]
  ELSE NoCodeSystem

\* A response body: text that is undefined or null ("undefined"), empty or
\* white space ("blank"), not XML ("unparsable"), or the XML of a
\* RetrieveValueSetResponse ("response") with the ID and version of its
\* ValueSet and the Concept elements of its ConceptList
Body(kind, ID, version, concepts) ==
  [kind |-> kind, ID |-> ID, version |-> version, concepts |-> concepts]

Concept(code, codeSystem, codeSystemVersion) ==
  [code |-> code, codeSystem |-> codeSystem, codeSystemVersion |-> codeSystemVersion]

\* ParseConcepts whose mode 'both' leaves the oid form out when there is a uri
RECURSIVE ParseConcepts_BothOneEach(_, _)
ParseConcepts_BothOneEach(conceptList, svsCodeSystemType) ==
  IF conceptList = <<>> THEN <<>>
  ELSE LET concept == Head(conceptList)
           systemOid == <<URN>> \o concept.codeSystem
           systemUri == getVSACCodeSystem(vsacCS, concept.codeSystem)
           system == IF svsCodeSystemType = "oid" THEN systemOid
                     ELSE IF systemUri # NoCodeSystem THEN systemUri.uri
                     ELSE systemOid
       IN <<Code(concept.code, system, concept.codeSystemVersion)>>
          \o ParseConcepts_BothOneEach(Tail(conceptList), svsCodeSystemType)

\* lines 118-150: the codes of the concepts
RECURSIVE ParseConcepts(_, _)
ParseConcepts(conceptList, svsCodeSystemType) ==
  IF conceptList = <<>> THEN <<>>
  ELSE LET concept == Head(conceptList)
           code == concept.code
           version == concept.codeSystemVersion
           systemOid == <<URN>> \o concept.codeSystem
           systemUri == getVSACCodeSystem(vsacCS, concept.codeSystem)
           first == IF svsCodeSystemType = "both" /\ systemUri # NoCodeSystem
                    THEN <<Code(code, systemUri.uri, version)>>
                    ELSE <<>>
           system == IF svsCodeSystemType = "oid" THEN systemOid
                     ELSE IF svsCodeSystemType = "both" THEN systemOid
                     ELSE IF systemUri # NoCodeSystem THEN systemUri.uri
                     ELSE systemOid
       IN first \o <<Code(code, system, version)>>
          \o ParseConcepts(Tail(conceptList), svsCodeSystemType)

\* parseVSACXML that goes on to parse a blank text: parseString gives null
parseVSACXML_NoBlankTest(xmlString, vsDB, options) ==
  IF xmlString.kind \in {"undefined", "blank", "unparsable"}
  THEN [thrown |-> "TypeError", db |-> vsDB]
  ELSE [thrown |-> "nothing",
        db |-> PutValueSet(vsDB, xmlString.ID, xmlString.version,
                 ValueSet(xmlString.ID, xmlString.version,
                          ParseConcepts(xmlString.concepts, options.svsCodeSystemType)))]

\* parseVSACXML: what it throws and the database it leaves.  Of a text that
\* is not XML parseString gives its callback an error and no result, and
\* line 108 reads a property of undefined
parseVSACXML(xmlString, vsDB, options) ==
  IF xmlString.kind \in {"undefined", "blank"}
  THEN [thrown |-> "nothing", db |-> vsDB]
  ELSE IF xmlString.kind = "unparsable"
  THEN [thrown |-> "TypeError", db |-> vsDB]
  ELSE [thrown |-> "nothing",
        db |-> PutValueSet(vsDB, xmlString.ID, xmlString.version,
                 ValueSet(xmlString.ID, xmlString.version,
                          ParseConcepts(xmlString.concepts, options.svsCodeSystemType)))]

\* one download by svs.downloadValueSet: a download with its options, and
\* once it is answered the body it was answered with
SvsDownload(oid, version, options) ==
  [oid |-> oid, version |-> version, status |-> "pending",
   offs |-> <<0>>, pages |-> <<>>, nreq |-> 1, err |-> "none", got |-> <<>>,
   options |-> options]

\* svs.downloadValueSet up to its await, lines 19-36: vsacAccess is a
\* string, a function, or something else
svsDownloadValueSet(s, apiKey, oid, version, vsacAccess, options) ==
  /\ calls[s].status \in {"idle", "resolved", "rejected"}
  /\ calls' = [calls EXCEPT ![s] =
       IF vsacAccess \in {"string", "function"}
       THEN [IdleCall EXCEPT !.status = "waiting", !.apiKey = apiKey,
                             !.dl = <<SvsDownload(oid, version, options)>>]
       ELSE [IdleCall EXCEPT !.status = "rejected", !.apiKey = apiKey,
                             !.thrown = "vsacAccess"]]
  /\ UNCHANGED <<valueSets, query, service>>

\* fetchValueSet, lines 62-64: !response.ok
SvsFetchFails(s) ==
  /\ Pending(s, 1)
  /\ calls' = [calls EXCEPT ![s] =
       [@ EXCEPT !.status = "rejected", !.thrown = "status",
                 !.dl = <<[@[1] EXCEPT !.status = "failed", !.err = "status"]>>]]
  /\ UNCHANGED <<valueSets, query, service>>

\* line 37: the text data has arrived and is parsed into the database
SvsParse(s, data) ==
  /\ Pending(s, 1)
  /\ LET parsed == parseVSACXML(data, valueSets, calls[s].dl[1].options)
         d == [calls[s].dl[1] EXCEPT !.pages = <<data>>]
     IN /\ valueSets' = parsed.db
        /\ calls' = [calls EXCEPT ![s] =
             IF parsed.thrown # "nothing"
             THEN [@ EXCEPT !.status = "rejected", !.thrown = parsed.thrown,
                            !.dl = <<[d EXCEPT !.status = "failed", !.err = parsed.thrown]>>]
             ELSE [@ EXCEPT !.status = "resolved",
                            !.dl = <<[d EXCEPT !.status = "done",
                                               !.got = IF data.kind = "response"
                                                       THEN <<data.ID, data.version>>
                                                       ELSE <<>>]>>]]
  /\ UNCHANGED <<query, service>>

----------------------------------------------------------------------------
(* The callers and the server *)

\* the versions "2" and "10"
Versions == {<<"2">>, <<"1", "0">>}

Ref(id, version) == [id |-> id, version |-> version]

\* the references the callers list: the oid 1 bare and as a urn, with the
\* version 2 in its url and with the version 10 beside it, and the oid 2
Refs ==
  <<Ref(<<"1">>, Undefined), Ref(<<URN, "1">>, Undefined),
    Ref(<<HTTPS, "1", PIPE, "2">>, Undefined), Ref(<<"1">>, <<"1", "0">>),
    Ref(<<"2">>, Undefined)>>

\* the elements of refs at the indices I, in the order of refs
RECURSIVE Pick(_, _)
Pick(refs, I) ==
  IF I = {} THEN <<>>
  ELSE LET i == CHOOSE x \in I : \A y \in I : x <= y
       IN <<refs[i]>> \o Pick(refs, I \ {i})

\* the lists of up to MaxList of the references
Lists ==
  {Pick(Refs, I) : I \in {J \in SUBSET (1..Len(Refs)) : Cardinality(J) <= MaxList}}

ApiKeys == {Undefined, Null, <<"0">>}

\* the codes the server holds at positions offset+1 .. offset+n
ServerCodes(offset, n) ==
  [i \in 1..n |-> Code(<<Alphabet[((offset + i - 1) % 3) + 2]>>, <<"1">>, Undefined)]

\* the bodies the server may answer the request in flight of download d
\* with: the first page names a value set, with one of the Ids and any
\* version, the later pages name the same one
ServerPages(d, Ids, Kinds, Totals, Sizes, Reported) ==
  LET offset == d.offs[Len(d.offs)]
      named == IF d.pages = <<>> THEN Ids \X Versions
               ELSE {<<d.pages[1].id, d.pages[1].version>>}
  IN {Page(n[1], n[2], "noexp", 0, 0, <<>>) : n \in named}
     \cup {Page(n[1], n[2], k, IF k = "nototal" THEN 0 ELSE t,
                IF r = "asked" THEN offset ELSE 0,
                IF k = "nocontains" THEN <<>> ELSE ServerCodes(offset, z)) :
             n \in named, k \in Kinds, t \in Totals, z \in Sizes, r \in Reported}

\* the continuation of the download i of the call s on the body page
Answer(s, i, page) ==
  \/ PageWithoutExpansion(s, i, page)
  \/ PageWithMore(s, i, page)
  \/ LastPage(s, i, page)

Next ==
  \/ \E s \in Slots, list \in Lists, key \in ApiKeys :
       ensureValueSetsWithAPIKey(s, list, key)
  \/ \E s \in Slots : \E i \in 1..Len(calls[s].dl) : FetchFails(s, i)
  \/ \E s \in Slots : \E i \in 1..Len(calls[s].dl) :
       /\ Pending(s, i)
       /\ \E page \in ServerPages(calls[s].dl[i], {calls[s].dl[i].oid}, {"full"}, {1}, {1}, {"asked"}) :
            \/ PageWithoutExpansion(s, i, page)
            \/ LastPage(s, i, page)
  \/ \E s \in Slots : \E i \in 1..Len(calls[s].dl) : downloadValueSet(s, i)
  \/ \E s \in Slots : PromiseAll(s)

Spec == Init /\ [][Next]_vars

----------------------------------------------------------------------------
(* The first call, with a batch of three references to three different keys *)

BatchRefs ==
  {Ref(<<"1">>, <<"2">>), Ref(<<"1">>, <<"1", "0">>), Ref(<<"2">>, Undefined)}

BatchLists ==
  {<<a, b, c>> : a \in BatchRefs, b \in BatchRefs, c \in BatchRefs} \
    {l \in {<<a, b, c>> : a \in BatchRefs, b \in BatchRefs, c \in BatchRefs} :
       l[1] = l[2] \/ l[1] = l[3] \/ l[2] = l[3]}

NextBatch ==
  \/ \E s \in Slots, list \in BatchLists :
       calls[s].status = "idle" /\ ensureValueSetsWithAPIKey(s, list, <<"0">>)
  \/ \E s \in Slots : \E i \in 1..Len(calls[s].dl) : FetchFails(s, i)
  \/ \E s \in Slots : \E i \in 1..Len(calls[s].dl) :
       /\ Pending(s, i)
       /\ \E page \in ServerPages(calls[s].dl[i], {calls[s].dl[i].oid}, {"full"}, {1}, {1}, {"asked"}) :
            \/ PageWithoutExpansion(s, i, page)
            \/ LastPage(s, i, page)
  \/ \E s \in Slots : \E i \in 1..Len(calls[s].dl) : downloadValueSet(s, i)
  \/ \E s \in Slots : PromiseAll(s)

SpecBatch == Init /\ [][NextBatch]_vars

----------------------------------------------------------------------------
(* The first call, of one download, against a server that pages as it likes *)

\* the largest expansion.total the server reports
MaxTotal == 5
\* the largest number of codes in one page
MaxPageSize == 2

NextPages ==
  \/ \E s \in Slots :
       /\ calls[s].status = "idle"
       /\ ensureValueSetsWithAPIKey(s, <<Ref(<<"1">>, Undefined)>>, <<"0">>)
  \/ \E s \in Slots : \E i \in 1..Len(calls[s].dl) : FetchFails(s, i)
  \/ \E s \in Slots : \E i \in 1..Len(calls[s].dl) :
       /\ Pending(s, i)
       /\ \E page \in ServerPages(calls[s].dl[i], {calls[s].dl[i].oid}, {"full", "nocontains", "nototal"},
                                  0..MaxTotal, 0..MaxPageSize, {"asked", "zero"}) :
            Answer(s, i, page)
  \/ \E s \in Slots : \E i \in 1..Len(calls[s].dl) : downloadValueSet(s, i)
  \/ \E s \in Slots : PromiseAll(s)

SpecPages == Init /\ [][NextPages]_vars

----------------------------------------------------------------------------
(* Lookups in a database that holds several versions *)

FindVersions == {<<"1">>, <<"2">>, <<"1", "0">>}

\* the inner object of an oid: its versions, each once, in any order
RECURSIVE Arrangements(_)
Arrangements(S) ==
  IF S = {} THEN {<<>>}
  ELSE UNION {{<<x>> \o rest : rest \in Arrangements(S \ {x})} : x \in S}

StoredEntry(oid, version) ==
  [key |-> version, vs |-> ValueSet(oid, version, ServerCodes(Len(version), 1))]

FindDBs ==
  {[k \in (IF one = <<>> THEN {} ELSE {<<"1">>}) \cup (IF two THEN {<<"2">>} ELSE {}) |->
      IF k = <<"1">> THEN [i \in 1..Len(one) |-> StoredEntry(k, one[i])]
      ELSE <<StoredEntry(k, <<"2">>)>>] :
     one \in UNION {Arrangements(V) : V \in SUBSET FindVersions}, two \in BOOLEAN}

FindIds ==
  {<<"1">>, <<"2">>, <<"0">>, <<URN, "1">>, <<HTTPS, "1">>, <<HTTP, "1", PIPE, "2">>,
   <<HTTPS, "1", PIPE, "1", "0">>, <<HTTPS, "1", PIPE>>}

FindArgs == FindVersions \cup {Undefined, Null, <<"0">>}

InitFind ==
  /\ valueSets \in FindDBs
  /\ calls = [s \in {1} |-> IdleCall]
  /\ query = NoQuery
  /\ service = DefaultService

\* a caller looks a value set up: findValueSets and findValueSet
Lookup(id, version) ==
  /\ query' = [id |-> id, version |-> version,
               results |-> findValueSets(valueSets, id, version),
               result |-> findValueSet(valueSets, id, version)]
  /\ UNCHANGED <<valueSets, calls, service>>

NextFind == \E id \in FindIds, version \in FindArgs : Lookup(id, version)

SpecFind == InitFind /\ [][NextFind]_vars

----------------------------------------------------------------------------
(* The first call of a service constructed in any of the ways *)

\* the custom urls of the README
CustomSvsUrl == "https://localhost/RetrieveSvsValueSet"
CustomFhirUrl == "https://localhost/RetrieveFhirValueSet/{{oid}}"

Services ==
  {CodeService(useDefaultUrl, useFHIR, vsacSvsUrl, vsacFhirUrl) :
     useDefaultUrl \in BOOLEAN, useFHIR \in BOOLEAN,
     vsacSvsUrl \in {VSAC_SVS_URL_TEMPLATE, CustomSvsUrl},
     vsacFhirUrl \in {VSAC_FHIR_URL_TEMPLATE, CustomFhirUrl}}

InitService ==
  /\ valueSets = EmptyDB
  /\ calls = [s \in {1} |-> IdleCall]
  /\ query = NoQuery
  /\ service \in Services

SpecService == InitService /\ [][NextBatch]_vars

----------------------------------------------------------------------------
(* Expansions of a value set whose codes may repeat *)

\* the codes of the stored value set
MaxCodes == 3

ExpandCodes ==
  {Code(<<"1">>, <<"1">>, Undefined), Code(<<"2">>, <<"1">>, Undefined)}

\* the sequences of up to n elements of S
RECURSIVE SeqsUpTo(_, _)
SeqsUpTo(S, n) ==
  IF n = 0 THEN {<<>>}
  ELSE LET shorter == SeqsUpTo(S, n - 1)
       IN shorter \cup {Append(q, x) : q \in shorter, x \in S}

\* nothing stored, or the version 2 of the oid 1 with any codes
ExpandDBs ==
  {EmptyDB} \cup
  {PutValueSet(EmptyDB, <<"1">>, <<"2">>, ValueSet(<<"1">>, <<"2">>, codes)) :
     codes \in SeqsUpTo(ExpandCodes, MaxCodes)}

InitExpand ==
  /\ valueSets \in ExpandDBs
  /\ calls = [s \in {1} |-> IdleCall]
  /\ query = NoQuery
  /\ service = DefaultService

\* a caller expands a value set: the codes returned and the value set they
\* are the codes of
Expand(oid, version) ==
  /\ query' = [id |-> oid, version |-> version,
               results |-> expandValueSet(valueSets, oid, version),
               result |-> findValueSet(valueSets, oid, version)]
  /\ UNCHANGED <<valueSets, calls, service>>

NextExpand ==
  \E oid \in {<<"1">>, <<URN, "1">>, <<"2">>}, version \in {Undefined, <<"2">>, <<"1", "0">>} :
    Expand(oid, version)

SpecExpand == InitExpand /\ [][NextExpand]_vars

----------------------------------------------------------------------------
(* Identifiers of any spelling *)

\* the characters of an identifier
MaxIdLen == 4

IdChars == {HTTPS, HTTP, URN, PIPE, "1", LF}

\* a caller normalizes an identifier: the pair returned
Normalize(id) ==
  /\ query' = [id |-> id, version |-> Undefined,
               results |-> extractOidAndVersion(id), result |-> NoValueSet]
  /\ UNCHANGED <<valueSets, calls, service>>

\* each behaviour normalizes one identifier
NextNormalize ==
  \E id \in SeqsUpTo(IdChars, MaxIdLen) : query = NoQuery /\ Normalize(id)

SpecNormalize == Init /\ [][NextNormalize]_vars

----------------------------------------------------------------------------
(* Two callers, each making one call while the other's may be in progress *)

ConcurrentLists ==
  {<<Ref(<<"1">>, <<"2">>)>>,
   <<Ref(<<"1">>, <<"2">>), Ref(<<"1">>, <<"1", "0">>)>>,
   <<Ref(<<"1">>, <<"2">>), Ref(<<"2">>, Undefined)>>}

InitConcurrent ==
  /\ valueSets = EmptyDB
  /\ calls = [s \in {1, 2} |-> IdleCall]
  /\ query = NoQuery
  /\ service = DefaultService

\* the server answers with one page, of no code or of one, of the version
\* asked for
NextConcurrent ==
  \/ \E s \in Slots, list \in ConcurrentLists :
       calls[s].status = "idle" /\ ensureValueSetsWithAPIKey(s, list, <<"0">>)
  \/ \E s \in Slots : \E i \in 1..Len(calls[s].dl) : FetchFails(s, i)
  \/ \E s \in Slots : \E i \in 1..Len(calls[s].dl) :
       /\ Pending(s, i)
       /\ \E page \in ServerPages(calls[s].dl[i], {calls[s].dl[i].oid}, {"full"}, {0}, {0, 1}, {"asked"}) :
            /\ IsNull(calls[s].dl[i].version) \/ page.version = calls[s].dl[i].version
            /\ \/ PageWithoutExpansion(s, i, page)
               \/ LastPage(s, i, page)
  \/ \E s \in Slots : \E i \in 1..Len(calls[s].dl) : downloadValueSet(s, i)
  \/ \E s \in Slots : PromiseAll(s)

SpecConcurrent == InitConcurrent /\ [][NextConcurrent]_vars

----------------------------------------------------------------------------
(* Calls with references that have no id *)

NullIdLists ==
  {<<Ref(Null, Undefined)>>, <<Ref(Undefined, Undefined)>>,
   <<Ref(Null, Undefined), Ref(<<"1">>, Undefined)>>,
   <<Ref(<<"1">>, Undefined), Ref(Undefined, <<"2">>)>>}

NextNullId ==
  \/ \E s \in Slots, list \in NullIdLists, key \in ApiKeys :
       ensureValueSetsWithAPIKey(s, list, key)
  \/ \E s \in Slots : \E i \in 1..Len(calls[s].dl) : FetchFails(s, i)
  \/ \E s \in Slots : \E i \in 1..Len(calls[s].dl) :
       /\ Pending(s, i)
       /\ \E page \in ServerPages(calls[s].dl[i], {calls[s].dl[i].oid}, {"full"}, {1}, {1}, {"asked"}) :
            \/ PageWithoutExpansion(s, i, page)
            \/ LastPage(s, i, page)
  \/ \E s \in Slots : \E i \in 1..Len(calls[s].dl) : downloadValueSet(s, i)
  \/ \E s \in Slots : PromiseAll(s)

SpecNullId == Init /\ [][NextNullId]_vars

----------------------------------------------------------------------------
(* Libraries that include libraries *)

\* the libraries that include one another, one in the other
MaxDepth == 2

\* the value set reference that a library at the depth declares
LibRef(depth) == [name |-> depth, id |-> <<"1">>, version |-> Undefined]

\* what a library declares itself: nothing, nothing in a valueSets that is
\* there, or one reference under one of the two names
Declarations(ref) ==
  {<<Absent, Absent>>, <<Present(<<>>), Absent>>,
   <<Present(<<ref>>), Absent>>, <<Absent, Present(<<ref>>)>>}

\* a library without includes that declares one reference as valuesets
Sibling == Library(Absent, Present(<<LibRef(-1)>>), Absent)

\* the libraries with up to depth levels of includes under them: a library
\* includes nothing, or one library, or that library and Sibling
RECURSIVE Libraries(_)
Libraries(depth) ==
  LET includes ==
        IF depth = 0 THEN {Absent}
        ELSE {Absent, Present(<<>>)}
             \cup {Present(<<l>>) : l \in Libraries(depth - 1)}
             \cup {Present(<<l, Sibling>>) : l \in Libraries(depth - 1)}
  IN {Library(decl[1], decl[2], inc) : decl \in Declarations(LibRef(depth)), inc \in includes}

\* a caller extracts the references of a library: the Set returned, as
\* Array.from gives it
Extract(library, extractFromIncluded) ==
  /\ query' = [library |-> library, extractFromIncluded |-> extractFromIncluded,
               results |-> extractSetOfValueSetsFromLibrary(library, extractFromIncluded, <<>>)]
  /\ UNCHANGED <<valueSets, calls, service>>

\* each behaviour extracts from one library
NextLibrary ==
  \E library \in Libraries(MaxDepth), extractFromIncluded \in BOOLEAN :
    query = NoQuery /\ Extract(library, extractFromIncluded)

SpecLibrary == Init /\ [][NextLibrary]_vars

----------------------------------------------------------------------------
(* Downloads of the oid 1 by the SVS downloader *)

\* the Concept elements of one response
MaxConcepts == 2

\* a concept of the code system 1, which has a uri, and one of the code
\* system 2, which has none
Concepts ==
  {Concept(<<"1">>, <<"1">>, <<"2">>), Concept(<<"2">>, <<"2">>, Undefined)}

\* the values of options.svsCodeSystemType: the three modes and any other
CodeSystemTypes == {"url", "oid", "both", "other"}

\* the bodies the SVS server answers a request for oid with
SvsBodies(oid) ==
  {Body(kind, <<>>, <<>>, <<>>) : kind \in {"undefined", "blank", "unparsable"}}
  \cup {Body("response", oid, version, concepts) :
          version \in Versions, concepts \in SeqsUpTo(Concepts, MaxConcepts)}

NextSvs ==
  \/ \E s \in Slots, type \in CodeSystemTypes, vsacAccess \in {"string", "function", "other"} :
       svsDownloadValueSet(s, <<"0">>, <<"1">>, Undefined, vsacAccess,
                           [svsCodeSystemType |-> type])
  \/ \E s \in Slots : SvsFetchFails(s)
  \/ \E s \in Slots :
       /\ Pending(s, 1)
       /\ \E data \in SvsBodies(calls[s].dl[1].oid) : SvsParse(s, data)

SpecSvs == Init /\ [][NextSvs]_vars


----------------------------------------------------------------------------
(* One database filled by both downloaders, from a server that names the   *)
(* value set it answers with as it likes                                    *)

StoreOids == {<<"1">>, <<"2">>}

StoreLists ==
  {<<Ref(<<"1">>, Undefined)>>, <<Ref(<<"1">>, <<"1", "0">>)>>,
   <<Ref(<<"1">>, <<"2">>), Ref(<<"2">>, Undefined)>>}

\* a download of fhir.downloadValueSet, not of svs.downloadValueSet
IsFhir(d) == "options" \notin DOMAIN d

\* the pages of up to two codes, one code a page; the first page names any
\* of the oids, with any version or none, whatever was asked for
StorePages(d) ==
  LET pages == ServerPages(d, StoreOids, {"full"}, 1..2, {1}, {"asked"})
  IN IF d.pages = <<>>
     THEN pages \cup {[p EXCEPT !.version = Undefined] : p \in pages}
     ELSE pages

\* the SVS responses: any of the oids, of no concept or one
StoreBodies ==
  {b \in UNION {SvsBodies(oid) : oid \in StoreOids} :
     b.kind = "response" /\ Len(b.concepts) <= 1}

NextStore ==
  \/ \E s \in Slots, list \in StoreLists :
       ensureValueSetsWithAPIKey(s, list, <<"0">>)
  \/ \E s \in Slots : \E i \in 1..Len(calls[s].dl) :
       IsFhir(calls[s].dl[i]) /\ FetchFails(s, i)
  \/ \E s \in Slots : \E i \in 1..Len(calls[s].dl) :
       /\ Pending(s, i)
       /\ IsFhir(calls[s].dl[i])
       /\ \E page \in StorePages(calls[s].dl[i]) : Answer(s, i, page)
  \/ \E s \in Slots : \E i \in 1..Len(calls[s].dl) : downloadValueSet(s, i)
  \/ \E s \in Slots : PromiseAll(s)
  \/ \E s \in Slots, oid \in StoreOids :
       svsDownloadValueSet(s, <<"0">>, oid, Undefined, "string",
                           [svsCodeSystemType |-> "url"])
  \/ \E s \in Slots :
       Pending(s, 1) /\ ~IsFhir(calls[s].dl[1]) /\ SvsFetchFails(s)
  \/ \E s \in Slots :
       /\ Pending(s, 1)
       /\ ~IsFhir(calls[s].dl[1])
       /\ \E data \in StoreBodies : SvsParse(s, data)

SpecStore == Init /\ [][NextStore]_vars

----------------------------------------------------------------------------
(* Claims *)

Defined(db, vs) == findValueSet(db, vs.id, vs.version) # NoValueSet

AllDefined(db, list) == \A i \in 1..Len(list) : Defined(db, list[i])

RECURSIVE Requests(_)
\* the page requests the downloads dl have issued
Requests(dl) == IF dl = <<>> THEN 0 ELSE Head(dl).nreq + Requests(Tail(dl))

\* the download recorded the value set it asked for
AnsweredAsAsked(d) ==
  /\ d.status = "done"
  /\ d.got # <<>>
  /\ d.got[1] = d.oid
  /\ IsNull(d.version) \/ d.got[2] = d.version

\* C1: when ensureValueSetsWithAPIKey resolves, findValueSet finds a value
\* set for every reference of the list.  Stated for the calls whose every
\* download was answered with the value set it asked for, lists that name two
\* versions of one oid included.
C1_ResolvedMeansDefined ==
  \A s \in Slots :
    (/\ calls[s].status = "resolved"
     /\ \A i \in 1..Len(calls[s].dl) : AnsweredAsAsked(calls[s].dl[i]))
    => AllDefined(valueSets, calls[s].list)

C4_NoKeyFails ==
  \A s \in Slots :
    (calls[s].status # "idle" /\ IsNull(calls[s].apiKey))
    => /\ calls[s].status = "rejected"
       /\ calls[s].thrown = "nokey"
       /\ Requests(calls[s].dl) = 0

\* C4 as amended: a call made without an API key issues no request and
\* leaves the database as it is; it fails when some reference of the list has
\* no local definition and resolves when every reference has one.
C4_NoKeyStep ==
  \A s \in Slots :
    (calls[s].status # "waiting" /\ calls'[s] # calls[s] /\ IsNull(calls'[s].apiKey))
    => /\ valueSets' = valueSets
       /\ calls'[s].dl = <<>>
       /\ Requests(calls'[s].dl) = 0
       /\ IF AllDefined(valueSets, calls'[s].list)
          THEN calls'[s].status = "resolved"
          ELSE calls'[s].status = "rejected" /\ calls'[s].thrown = "nokey"

C4_NoKeyNoRequest == [][C4_NoKeyStep]_vars

C4_Witness ==
  \E s \in Slots :
    /\ calls[s].apiKey = Null
    /\ calls[s].status = "rejected"
    /\ calls[s].thrown = "nokey"
    /\ DOMAIN valueSets # {}

\* C6: when a page request is answered with a status that is not a
\* success, on the first page or on a later one, the download fails and the
\* database is as it was: nothing of the pages received is recorded.
C6_FailStep ==
  \A s \in Slots :
    \A i \in 1..Len(calls[s].dl) :
      (calls[s].dl[i].status = "pending" /\ calls'[s].dl[i].err = "status")
      => /\ calls'[s].dl[i].status = "failed"
         /\ calls'[s].dl[i].got = <<>>
         /\ valueSets' = valueSets

C6_FailedDownloadRecordsNothing == [][C6_FailStep]_vars

\* a download that failed on its second page, with the database holding
\* nothing for the oid it asked for
C6_Witness ==
  \E s \in Slots :
    \E i \in 1..Len(calls[s].dl) :
      /\ calls[s].dl[i].err = "status"
      /\ calls[s].dl[i].nreq > 1
      /\ ~HasOid(valueSets, calls[s].dl[i].oid)

\* the step records a value set under the key (k, v)
Commits(k, v) ==
  \E s \in Slots :
    \E i \in 1..Len(calls[s].dl) :
      /\ calls[s].dl[i].status = "collected"
      /\ calls'[s].dl[i].status = "done"
      /\ ToKey(calls'[s].dl[i].got[1]) = k
      /\ ToKey(calls'[s].dl[i].got[2]) = v

\* C7: a step leaves every stored value set stored and unchanged, except
\* the one under the key the step records a value set for, which is replaced.
C7_Step ==
  \A k \in DOMAIN valueSets :
    \A i \in 1..Len(valueSets[k]) :
      /\ k \in DOMAIN valueSets'
      /\ \E j \in 1..Len(valueSets'[k]) :
           /\ valueSets'[k][j].key = valueSets[k][i].key
           /\ \/ valueSets'[k][j] = valueSets[k][i]
              \/ Commits(k, valueSets[k][i].key)

C7_OtherKeysKept == [][C7_Step]_vars

\* C8: no two downloads of one call are for the same (oid, version) key.
C8_OneFetchPerKey ==
  \A s \in Slots :
    \A i, j \in 1..Len(calls[s].dl) :
      (/\ calls[s].dl[i].oid = calls[s].dl[j].oid
       /\ calls[s].dl[i].version = calls[s].dl[j].version)
      => i = j


\* C3: when a call fails with the errors of its downloads, there is one
\* error for each key whose download failed, naming the key, and every value
\* set that a download of the call was answered with as asked and recorded is
\* in the database.
C3_ErrorsAndPartialSuccess ==
  \A s \in Slots :
    calls[s].thrown = "errors"
    => LET dl == calls[s].dl
           failed == {i \in 1..Len(dl) : dl[i].status = "failed"}
           errors == calls[s].errors
       IN /\ failed # {}
          /\ \A i \in failed :
               \E j \in 1..Len(errors) :
                 /\ errors[j].oid = dl[i].oid
                 /\ errors[j].version = (IF IsNull(dl[i].version) THEN <<>> ELSE dl[i].version)
          /\ Len(errors) = Cardinality({<<dl[i].oid, dl[i].version>> : i \in failed})
          /\ \A i \in 1..Len(dl) :
               AnsweredAsAsked(dl[i])
               => HasVersion(valueSets, dl[i].got[1], dl[i].got[2])

RECURSIVE SumSizes(_)
\* the number of codes of the pages
SumSizes(pages) ==
  IF pages = <<>> THEN 0 ELSE Len(Head(pages).contains) + SumSizes(Tail(pages))

InFlight(d) == d.status \in {"pending", "collected"}

\* every page received has a whole expansion, reports the offset that was
\* asked for, and reports the same total
WellPaged(d) ==
  \A j \in 1..Len(d.pages) :
    /\ d.pages[j].kind = "full"
    /\ d.pages[j].offset = d.offs[j]
    /\ d.pages[j].total = d.pages[1].total

\* C5, requests: the download of a well-paged value set has issued one
\* request per page received (and one more while it waits for a page), the
\* first at offset 0 and each next one at the offset of the previous one plus
\* the size of the page it returned; it goes on asking exactly as long as the
\* pages received hold fewer codes than the total.
C5_Requests ==
  \A s \in Slots :
    \A i \in 1..Len(calls[s].dl) :
      LET d == calls[s].dl[i]
      IN (InFlight(d) /\ WellPaged(d))
         => /\ d.nreq = Len(d.offs)
            /\ Len(d.offs) = Len(d.pages) + (IF d.status = "pending" THEN 1 ELSE 0)
            /\ \A j \in 1..Len(d.offs) : d.offs[j] = SumSizes(SubSeq(d.pages, 1, j - 1))
            /\ (d.status = "pending" /\ d.pages # <<>>)
               => SumSizes(d.pages) < d.pages[1].total
            /\ d.status = "collected" => SumSizes(d.pages) >= d.pages[1].total

\* C5, result: when the pages hold exactly total codes, the value set
\* recorded has these total codes, page after page in the order of the
\* requests.
C5_CommitStep ==
  \A s \in Slots :
    \A i \in 1..Len(calls[s].dl) :
      LET d == calls[s].dl[i]
      IN (/\ d.status = "collected"
          /\ calls'[s].dl[i].status = "done"
          /\ WellPaged(d)
          /\ SumSizes(d.pages) = d.pages[1].total)
         => LET k == ToKey(d.pages[1].id)
            IN /\ k \in DOMAIN valueSets'
               /\ Len(valueSets'[k]) = 1
               /\ valueSets'[k][1].key = ToKey(d.pages[1].version)
               /\ LET vs == valueSets'[k][1].vs
                  IN /\ vs.oid = d.pages[1].id
                     /\ vs.version = d.pages[1].version
                     /\ Len(vs.codes) = d.pages[1].total
                     /\ \A j \in 1..Len(d.pages) :
                          \A m \in 1..Len(d.pages[j].contains) :
                            vs.codes[d.offs[j] + m] = d.pages[j].contains[m]

\* C5: k pages of sizes n1..nk with total n1+...+nk are fetched with k
\* requests at the offsets 0, n1, n1+n2, ... and recorded as one value set
\* of total codes in page order.
C5_Pagination == [][C5_Requests /\ C5_Requests' /\ C5_CommitStep]_vars

\* three pages of sizes 2, 2, 1 with total 5 have been received
C5_Witness ==
  \E s \in Slots :
    \E i \in 1..Len(calls[s].dl) :
      LET d == calls[s].dl[i]
      IN /\ d.status = "collected"
         /\ WellPaged(d)
         /\ Len(d.pages) = 3
         /\ d.offs = <<0, 2, 4>>
         /\ d.pages[1].total = 5
         /\ SumSizes(d.pages) = 5

\* the value sets stored for the oid of id whose version key is v, all of
\* them when v is null
Stored(db, id, v) ==
  LET k == ToKey(extractOidAndVersion(id)[1])
  IN IF k \in DOMAIN db
     THEN {db[k][i].vs : i \in {j \in 1..Len(db[k]) : IsNull(v) \/ db[k][j].key = v}}
     ELSE {}

\* C9: findValueSet(id) without a version returns nothing when no version
\* of the oid is stored, the stored one when there is one, and otherwise the
\* stored one whose version is the greatest string, whatever the order they
\* are stored in.
C9_GreatestVersion ==
  (query # NoQuery /\ IsNull(query.version) /\ IsNull(extractOidAndVersion(query.id)[2]))
  => LET all == Stored(valueSets, query.id, Undefined)
     IN /\ all = {} => query.result = NoValueSet
        /\ all # {} =>
             /\ query.result \in all
             /\ \A vs \in all : vs = query.result \/ StrGreater(query.result.version, vs.version)

\* with "2" and "10" (and maybe "1") stored, in any order, "2" is returned
C9_Witness ==
  /\ query # NoQuery
  /\ query.id = <<URN, "1">>
  /\ query.version = Undefined
  /\ <<"1">> \in DOMAIN valueSets
  /\ Len(valueSets[<<"1">>]) > 1
  /\ valueSets[<<"1">>][1].key = <<"2">>
  /\ \E i \in 1..Len(valueSets[<<"1">>]) : valueSets[<<"1">>][i].key = <<"1", "0">>
  /\ query.result.version = <<"2">>

\* the version a lookup goes by: the argument when given, else the one in id
Wanted(id, version) ==
  IF ~IsNull(version) THEN version ELSE extractOidAndVersion(id)[2]

\* C10: findValueSets(id, version) returns the value sets stored for the
\* oid of id under the version wanted, each once, and all the versions of
\* the oid when none is wanted; at most one with a version wanted, none for
\* an oid that is not stored.
C10_FindValueSets ==
  query # NoQuery
  => LET v == Wanted(query.id, query.version)
         found == {query.results[i] : i \in 1..Len(query.results)}
     IN /\ found = Stored(valueSets, query.id, v)
        /\ Cardinality(found) = Len(query.results)
        /\ ~IsNull(v) => Len(query.results) <= 1
        /\ ~HasOid(valueSets, extractOidAndVersion(query.id)[1]) => query.results = <<>>

\* a lookup by a url with a version in it and another version as argument
C10_Witness ==
  /\ query.id = <<HTTP, "1", PIPE, "2">>
  /\ query.version = <<"1", "0">>
  /\ Len(query.results) = 1
  /\ query.results[1].version = <<"1", "0">>
  /\ <<"1">> \in DOMAIN valueSets
  /\ Len(valueSets[<<"1">>]) = 3


\* the elements of codes, each once, at the place of its first occurrence
RECURSIVE FirstOccurrences(_)
FirstOccurrences(codes) ==
  IF codes = <<>> THEN <<>>
  ELSE LET front == FirstOccurrences(SubSeq(codes, 1, Len(codes) - 1))
           last == codes[Len(codes)]
       IN IF \E i \in 1..Len(front) : front[i] = last THEN front
          ELSE Append(front, last)

\* C11: expandValueSet returns the codes of the value set that findValueSet
\* resolves, each (code, system, version) triple once and at the place of its
\* first occurrence, and no codes when there is no such value set.
C11_ExpandRemovesDuplicates ==
  query # NoQuery
  => IF query.result = NoValueSet THEN query.results = <<>>
     ELSE query.results = FirstOccurrences(query.result.codes)

\* the protocol an access url is of
Protocol(url) ==
  IF url \in {VSAC_FHIR_URL_TEMPLATE, CustomFhirUrl} THEN "FHIR" ELSE "SVS"

\* C12: the downloads of a service constructed with useFHIR = false use the
\* SVS downloader with the SVS url, those of a service constructed with
\* useFHIR = true the FHIR downloader with the FHIR url; the downloader and
\* the url in use are of the same protocol.
C12_FetcherMatchesUrl ==
  \A s \in Slots :
    calls[s].dl # <<>>
    => /\ service.api = (IF service.useFHIR THEN "FHIR" ELSE "SVS")
       /\ Protocol(service.vsacAccess) = (IF service.useFHIR THEN "FHIR" ELSE "SVS")
       /\ Protocol(service.vsacAccess) = service.api

\* the (oid, version) pairs that reading id as a VSAC FHIR url gives: the
\* http or https prefix, an oid of one or more characters other than "|",
\* and then nothing or "|" and a version of one or more characters
UrlKeys(id) ==
  {<<SubSeq(id, 2, n),
     IF n = Len(id) THEN Undefined ELSE SubSeq(id, n + 2, Len(id))>> :
     n \in {m \in 2..Len(id) :
              /\ id[1] \in {HTTP, HTTPS}
              /\ \A j \in 2..m : id[j] # PIPE
              /\ \/ m = Len(id)
                 \/ id[m + 1] = PIPE /\ m + 1 < Len(id)}}

\* id is urn:oid: and an oid of one or more characters
IsUrn(id) == Len(id) > 1 /\ id[1] = URN

\* id is an oid as it is: no prefix, no "|"
IsBareOid(id) ==
  /\ id # <<>>
  /\ id[1] \notin {HTTP, HTTPS, URN}
  /\ \A j \in 1..Len(id) : id[j] # PIPE

HasLineTerminator(str) == \E j \in 1..Len(str) : str[j] = LF

\* C13 as claimed: a VSAC FHIR url gives its oid and the version after the
\* first "|" (none when there is none), else a urn:oid: gives its oid and no
\* version, else the string is the oid; so an oid, its urn and its url without
\* a version give the same key.
C13_Normalize ==
  query # NoQuery
  => LET id == query.id
     IN /\ IF UrlKeys(id) # {} THEN query.results \in UrlKeys(id)
           ELSE IF IsUrn(id) THEN query.results = <<Tail(id), Undefined>>
           ELSE query.results = <<id, Undefined>>
        /\ IsBareOid(id)
           => /\ query.results = <<id, Undefined>>
              /\ extractOidAndVersion(<<URN>> \o id) = query.results
              /\ extractOidAndVersion(<<HTTPS>> \o id) = query.results
              /\ extractOidAndVersion(<<HTTP>> \o id) = query.results

\* C13 as amended: the same, for a version and for the oid of a urn that
\* hold no line terminator; a url with a line terminator in its version and a
\* urn with one in its oid are returned as they are, as the oid.
C13_NormalizeOneLine ==
  query # NoQuery
  => LET id == query.id
         keys == {k \in UrlKeys(id) : ~HasLineTerminator(k[2])}
     IN /\ IF keys # {} THEN query.results \in keys
           ELSE IF IsUrn(id) /\ ~HasLineTerminator(id)
             THEN query.results = <<Tail(id), Undefined>>
           ELSE query.results = <<id, Undefined>>
        /\ (IsBareOid(id) /\ ~HasLineTerminator(id))
           => /\ query.results = <<id, Undefined>>
              /\ extractOidAndVersion(<<URN>> \o id) = query.results
              /\ extractOidAndVersion(<<HTTPS>> \o id) = query.results
              /\ extractOidAndVersion(<<HTTP>> \o id) = query.results

\* a url whose version holds a "|" has been normalized
C13_Witness ==
  /\ query.id = <<HTTP, "1", PIPE, PIPE>>
  /\ query.results = <<<<"1">>, <<PIPE>>>>

\* the code system has a uri in the table
Translatable(system) == system \in DOMAIN vsacCS

\* the codes that the concepts before the i-th give in the mode 'both'
EmittedBefore(concepts, i) ==
  (i - 1) + Cardinality({j \in 1..(i - 1) : Translatable(concepts[j].codeSystem)})

\* the code at the place p of codes is the concept with the system
IsCodeOf(codes, p, concept, system) ==
  /\ p \in 1..Len(codes)
  /\ codes[p] = Code(concept.code, system, concept.codeSystemVersion)

\* the codes are those the claim gives for the concepts in the mode
CodesPerPolicy(codes, concepts, mode) ==
  LET n == Len(concepts)
      urn(i) == <<URN>> \o concepts[i].codeSystem
      uri(i) == vsacCS[concepts[i].codeSystem].uri
  IN /\ mode = "url" =>
          /\ Len(codes) = n
          /\ \A i \in 1..n :
               IsCodeOf(codes, i, concepts[i],
                        IF Translatable(concepts[i].codeSystem) THEN uri(i) ELSE urn(i))
     /\ mode = "oid" =>
          /\ Len(codes) = n
          /\ \A i \in 1..n : IsCodeOf(codes, i, concepts[i], urn(i))
     /\ mode = "both" =>
          /\ Len(codes) = EmittedBefore(concepts, n + 1)
          /\ \A i \in 1..n :
               LET p == EmittedBefore(concepts, i)
               IN IF Translatable(concepts[i].codeSystem)
                  THEN /\ IsCodeOf(codes, p + 1, concepts[i], uri(i))
                       /\ IsCodeOf(codes, p + 2, concepts[i], urn(i))
                       /\ EmittedBefore(concepts, i + 1) = p + 2
                  ELSE /\ IsCodeOf(codes, p + 1, concepts[i], urn(i))
                       /\ EmittedBefore(concepts, i + 1) = p + 1

\* C14: the value set that the SVS downloader records for a response has,
\* in the order of the concepts, in the mode 'url' one code per concept with
\* the uri of its code system or, when it has none, its urn:oid:, in the mode
\* 'oid' one code per concept with the urn:oid:, and in the mode 'both' two
\* codes (uri, then urn:oid:) for a concept whose code system has a uri and
\* one (urn:oid:) for a concept whose code system has none.
C14_CodesPerPolicy ==
  \A s \in Slots :
    (/\ Len(calls[s].dl) = 1
     /\ calls[s].dl[1].status = "done"
     /\ calls[s].dl[1].pages # <<>>
     /\ calls[s].dl[1].pages[1].kind = "response")
    => LET body == calls[s].dl[1].pages[1]
       IN /\ HasVersion(valueSets, body.ID, body.version)
          /\ Len(valueSets[ToKey(body.ID)]) = 1
          /\ CodesPerPolicy(valueSets[ToKey(body.ID)][1].vs.codes, body.concepts,
                            calls[s].dl[1].options.svsCodeSystemType)

\* in the mode 'both', a concept with a uri and then one without are recorded
C14_Witness ==
  \E s \in Slots :
    /\ Len(calls[s].dl) = 1
    /\ calls[s].dl[1].status = "done"
    /\ calls[s].dl[1].options.svsCodeSystemType = "both"
    /\ calls[s].dl[1].pages # <<>>
    /\ calls[s].dl[1].pages[1].kind = "response"
    /\ Len(calls[s].dl[1].pages[1].concepts) = 2
    /\ Translatable(calls[s].dl[1].pages[1].concepts[1].codeSystem)
    /\ ~Translatable(calls[s].dl[1].pages[1].concepts[2].codeSystem)
    /\ HasOid(valueSets, <<"1">>)
    /\ Len(valueSets[<<"1">>][1].vs.codes) = 3

\* the step answers the download of s with a body of one of the kinds
SvsAnswered(s, kinds) ==
  /\ Len(calls[s].dl) = 1
  /\ calls[s].dl[1].status = "pending"
  /\ Len(calls'[s].dl) = 1
  /\ calls'[s].dl[1].pages # <<>>
  /\ calls'[s].dl[1].pages[1].kind \in kinds

\* the download of s completes without an error and records nothing
SvsNoOp(s) ==
  /\ calls'[s].status = "resolved"
  /\ calls'[s].dl[1].status = "done"
  /\ calls'[s].dl[1].err = "none"
  /\ calls'[s].dl[1].got = <<>>
  /\ valueSets' = valueSets

\* C15 as claimed: an SVS download answered with a body that is blank or
\* is not XML completes without an error and leaves the database as it is.
C15_BlankOrUnparsableStep ==
  \A s \in Slots :
    SvsAnswered(s, {"undefined", "blank", "unparsable"}) => SvsNoOp(s)

C15_BlankStep ==
  \A s \in Slots :
    /\ SvsAnswered(s, {"undefined", "blank"}) => SvsNoOp(s)
    /\ SvsAnswered(s, {"unparsable"})
       => /\ calls'[s].status = "rejected"
          /\ calls'[s].dl[1].status = "failed"
          /\ calls'[s].dl[1].err = "TypeError"
          /\ valueSets' = valueSets

Declared(library) ==
  {library.valueSets.values[i] : i \in 1..Len(library.valueSets.values)}
  \cup {library.valuesets.values[i] : i \in 1..Len(library.valuesets.values)}

\* the references declared by the library and by every library it reaches
\* through includes
RECURSIVE DeclaredWithin(_)
DeclaredWithin(library) ==
  Declared(library)
  \cup UNION {DeclaredWithin(library.includes.values[i]) :
               i \in 1..Len(library.includes.values)}

\* C16: extractSetOfValueSetsFromLibrary(library, true) returns the
\* references that the library declares and those that every library it
\* reaches through its includes declares, also when the library declares none
\* itself; with false it returns the references the library declares.
C16_ExtractsIncluded ==
  (query # NoQuery /\ "library" \in DOMAIN query)
  => LET found == {query.results[i] : i \in 1..Len(query.results)}
     IN /\ Cardinality(found) = Len(query.results)
        /\ found = IF query.extractFromIncluded THEN DeclaredWithin(query.library)
                   ELSE Declared(query.library)

\* total > offset + contains.length holds of the page: it does not when one
\* of the three is missing
TotalNotReached(page) ==
  /\ page.kind \notin {"noexp", "nocontains", "nototal"}
  /\ page.total > page.offset + Len(page.contains)

\* C17: a download goes on to the next request exactly when the response
\* has an expansion with total > offset + contains.length; a response without
\* expansion, the first one or a later one, ends the download as an empty
\* result: no error, nothing recorded.
C17_Step ==
  \A s \in Slots :
    \A i \in 1..Len(calls[s].dl) :
      LET d == calls[s].dl[i]
          e == calls'[s].dl[i]
      IN (d.status = "pending" /\ e # d)
         => /\ e.status = "pending" =>
                 /\ Len(e.pages) = Len(d.pages) + 1
                 /\ TotalNotReached(e.pages[Len(e.pages)])
            /\ e.status = "collected" =>
                 /\ Len(e.pages) = Len(d.pages) + 1
                 /\ ~TotalNotReached(e.pages[Len(e.pages)])
            /\ (Settled(e) /\ e.err # "status") =>
                 /\ e.status = "done"
                 /\ e.err = "none"
                 /\ e.got = <<>>
                 /\ valueSets' = valueSets

C17_NoExpansionEndsDownload == [][C17_Step]_vars

\* C18: a call completes only when every download it issued has settled,
\* so not at the failure of one while another is in flight; it then fails
\* with one error for each download that failed, in their order, or resolves
\* when none failed, and every other download has completed.
C18_Step ==
  \A s \in Slots :
    (calls[s].status = "waiting" /\ calls'[s].status # "waiting")
    => LET dl == calls[s].dl
           failed == {i \in 1..Len(dl) : dl[i].status = "failed"}
           done == {i \in 1..Len(dl) : dl[i].status = "done"}
       IN /\ \A i \in 1..Len(dl) : dl[i].status \notin {"pending", "collected"}
          /\ calls'[s].dl = dl
          /\ failed \cup done = 1..Len(dl)
          /\ valueSets' = valueSets
          /\ failed = {} => calls'[s].status = "resolved" /\ calls'[s].errors = <<>>
          /\ failed # {} =>
               /\ calls'[s].status = "rejected"
               /\ calls'[s].thrown = "errors"
               /\ Len(calls'[s].errors) = Cardinality(failed)
               /\ \A i \in failed :
                    calls'[s].errors[Cardinality({j \in failed : j <= i})] =
                      DownloadError(dl[i].oid, dl[i].version)

C18_CompletesAfterAllSettled == [][C18_Step]_vars

\* a call of three downloads has failed with the error of the first one,
\* the two others have recorded their value sets
C18_Witness ==
  \E s \in Slots :
    /\ calls[s].status = "rejected"
    /\ Len(calls[s].dl) = 3
    /\ Len(calls[s].errors) = 1
    /\ calls[s].dl[1].status = "failed"
    /\ calls[s].dl[2].status = "done" /\ calls[s].dl[2].got # <<>>
    /\ calls[s].dl[3].status = "done" /\ calls[s].dl[3].got # <<>>

\* two calls have each issued a download for one same key
Overlapping ==
  \E s, t \in Slots :
    /\ s # t
    /\ \E i \in 1..Len(calls[s].dl) :
         \E j \in 1..Len(calls[t].dl) :
           /\ calls[s].dl[i].oid = calls[t].dl[j].oid
           /\ calls[s].dl[i].version = calls[t].dl[j].version

\* the entries of the database: (oid key, version key, value set)
Entries(db) ==
  UNION {{<<k, db[k][i].key, db[k][i].vs>> : i \in 1..Len(db[k])} : k \in DOMAIN db}

\* C19: when two calls in progress at once have each issued a download for
\* the same key, every value set that one of their downloads records replaces
\* the one stored under its key, so that the last one recorded is the one the
\* database holds for the key, once, and the entries under all the other keys
\* stay as they are.
C19_Step ==
  \A s \in Slots :
    \A i \in 1..Len(calls[s].dl) :
      LET d == calls[s].dl[i]
      IN (/\ Overlapping
          /\ d.status = "collected"
          /\ calls'[s].dl[i].status = "done")
         => LET k == ToKey(d.pages[1].id)
                v == ToKey(d.pages[1].version)
                vs == ValueSet(d.pages[1].id, d.pages[1].version, PagesCodes(d.pages))
            IN /\ {e \in Entries(valueSets') : e[1] = k /\ e[2] = v} = {<<k, v, vs>>}
               /\ Cardinality({j \in 1..Len(valueSets'[k]) : valueSets'[k][j].key = v}) = 1
               /\ {e \in Entries(valueSets') : e[1] # k \/ e[2] # v}
                    = {e \in Entries(valueSets) : e[1] # k \/ e[2] # v}

C19_LastWriteWins == [][C19_Step]_vars

\* C20: a reference whose id is null or undefined is skipped by
\* ensureValueSetsWithAPIKey: no download is issued for it, and nothing is
\* stored for it.
C20_NullIdSkipped ==
  /\ \A s \in Slots :
       \A i \in 1..Len(calls[s].dl) : ~IsNull(calls[s].dl[i].oid)
  /\ ~HasOid(valueSets, Undefined)
  /\ ~HasOid(valueSets, Null)

\* C21: every paginated download issues each request at a strictly larger
\* offset than the previous one (so that, every request being answered, it
\* issues finitely many of them and settles), whatever the server answers,
\* a page with an empty contains and a total not yet reached included.
C21_OffsetsGrow ==
  \A s \in Slots :
    \A i \in 1..Len(calls[s].dl) :
      \A j \in 1..(Len(calls[s].dl[i].offs) - 1) :
        calls[s].dl[i].offs[j] < calls[s].dl[i].offs[j + 1]

\* every ValueSet of the database is the only one under its keys, and
\* carries them as its oid and its version
Keyed(db) ==
  \A k \in DOMAIN db :
    /\ \A a \in 1..Len(db[k]) :
         /\ ToKey(db[k][a].vs.oid) = k
         /\ ToKey(db[k][a].vs.version) = db[k][a].key
    /\ \A a \in 1..Len(db[k]), b \in 1..Len(db[k]) :
         db[k][a].key = db[k][b].key => a = b

\* the id and the version the server named in the first page of the
\* response that the download d, settled as e, was answered with
Named(d, e) ==
  IF IsFhir(d) THEN <<d.pages[1].id, d.pages[1].version>>
  ELSE <<e.pages[1].ID, e.pages[1].version>>

\* the download i of the call s records its value set in this step
Records(s, i) ==
  /\ s \in Slots
  /\ i \in 1..Len(calls[s].dl)
  /\ calls[s].dl[i].status \in {"collected", "pending"}
  /\ calls'[s].dl[i].status = "done"
  /\ calls'[s].dl[i].got # <<>>

C22_Step ==
  /\ Keyed(valueSets')
  /\ valueSets' # valueSets =>
       \E s \in Slots : \E i \in 1..Len(calls[s].dl) : Records(s, i)
  /\ \A s \in Slots : \A i \in 1..Len(calls[s].dl) :
       Records(s, i) =>
         LET named == Named(calls[s].dl[i], calls'[s].dl[i])
         IN /\ HasVersion(valueSets', named[1], named[2])
            /\ \A a \in 1..Len(valueSets'[ToKey(named[1])]) :
                 /\ valueSets'[ToKey(named[1])][a].vs.oid = named[1]
                 /\ valueSets'[ToKey(named[1])][a].vs.version = named[2]

\* C22: in every state of the database each ValueSet at valueSets[oid][version]
\* has that oid as its id and that version as its version, they are the
\* ones the server named in the first page of the response (not the ones
\* asked for), and there is at most one ValueSet for an oid and a version.
C22_StoredAsReported == Keyed(valueSets) /\ [][C22_Step]_vars

\* a value set is stored under an oid and a version that are not the ones
\* of the request it answers
C22_Witness ==
  \E s \in Slots : \E i \in 1..Len(calls[s].dl) :
    /\ calls[s].dl[i].status = "done"
    /\ calls[s].dl[i].got # <<>>
    /\ calls[s].dl[i].got[1] # calls[s].dl[i].oid
    /\ calls[s].dl[i].got[2] # calls[s].dl[i].version
    /\ ~IsNull(calls[s].dl[i].version)
    /\ HasVersion(valueSets, calls[s].dl[i].got[1], calls[s].dl[i].got[2])
    /\ Cardinality(DOMAIN valueSets) = 2

====
